---- MODULE Spec2Model ----
(***************************************************************************)
(* Model of the Aave position monitor (src/src/main.rs,                    *)
(* src/src/chains/ethereum.rs, src/src/chains/mod.rs).                     *)
(*                                                                         *)
(* Three tasks share the process: the supervisor loop that spawns and      *)
(* awaits ethereum_listening, the listener itself, and the health          *)
(* evaluator loop.  The only shared state is POSITION_DATA, reached        *)
(* through get_position_data / update_supplied_amount /                    *)
(* update_borrowed_amount, each one lock acquisition.  Every action below  *)
(* performs at most one such access, so the interleavings of the actions   *)
(* are the interleavings of the lock acquisitions.                         *)
(***************************************************************************)
EXTENDS Integers, Sequences, FiniteSets, TLC

\* ------------------------------------------------------------- bounds
\* Largest value of the model's U256 (the code's is 2^256 - 1).
U256_MAX == 3
\* Largest amount an event log carries.
MaxAmount == 2
\* Largest number of logs one log query returns.
MaxLogs == 2
\* Number of blocks the chain produces.
MaxBlocks == 2
\* Largest price the price service quotes.
MaxPrice == 2
\* Number of evaluation cycles the notifier counters follow.
MaxCycles == 2

U256 == 0..U256_MAX

\* ------------------------------------------------------ configuration
\* chains::get_pool_v3_address / get_user_address_to_track.
get_pool_v3_address == "pool"
get_user_address_to_track == "tracked_user"

\* Token decimals and the liquidation threshold (a ratio, 89/100 by default).
get_supply_token_decimals == 6
get_borrowed_token_decimals == 8
liquidation_threshold_num == 89
liquidation_threshold_den == 100

\* The environment the process is started in: the initial amounts of
\* INITIAL_SUPPLIED_AMOUNT / INITIAL_BORROWED_AMOUNT (0 when unset) and the
\* state of TELEGRAM_BOT_TOKEN / TELEGRAM_CHAT_ID.
DefaultEnv ==
    [INITIAL_SUPPLIED_AMOUNT |-> 0, INITIAL_BORROWED_AMOUNT |-> 0,
     TELEGRAM |-> "ok"]
EnvValues ==
    {DefaultEnv,
     [DefaultEnv EXCEPT !.INITIAL_SUPPLIED_AMOUNT = MaxAmount,
                        !.INITIAL_BORROWED_AMOUNT = 1],
     [DefaultEnv EXCEPT !.TELEGRAM = "token_unset"],
     [DefaultEnv EXCEPT !.TELEGRAM = "chat_id_not_u64"]}

\* --------------------------------------------------------- event logs
SUPPLY_EVENT_TOPIC == "2b62"
WITHDRAW_EVENT_TOPIC == "3115"
REPAY_EVENT_TOPIC == "a534"
BORROW_EVENT_TOPIC == "b3d0"
UNKNOWN_TOPIC == "ffff"

\* The four fetch_event attempts, in the order ethereum_listening makes them.
EventKinds == <<"Supply", "Withdraw", "Repay", "Borrow">>
EventTopics ==
    <<SUPPLY_EVENT_TOPIC, WITHDRAW_EVENT_TOPIC, REPAY_EVENT_TOPIC, BORROW_EVENT_TOPIC>>
KnownTopics == {EventTopics[k] : k \in 1..4}

\* A log as the listener reads it: its emitting address, its topics (none,
\* or the first one), whether its payload decodes as the event its first
\* topic names, and the user and amount a successful decode yields.
Log(address, topics, decodes, user, amount) ==
    [address |-> address, topics |-> topics, decodes |-> decodes,
     user |-> user, amount |-> amount]

Topics == {<<>>} \cup {<<t>> : t \in KnownTopics \cup {UNKNOWN_TOPIC}}

\* The logs get_logs can return, by what the code reads of them; a field
\* the code never reads of a log has one value.
\* Logs of another contract: only the address is read; their topics and
\* payload vary all the same.
ForeignLogs ==
    {Log("other_contract", topics, decodes, get_user_address_to_track, 1) :
        topics \in Topics, decodes \in BOOLEAN}

\* Logs of the pool without a topic, or with a first topic that is none of
\* the four signatures: nothing is decoded.
UnclassifiedLogs ==
    {Log(get_pool_v3_address, topics, TRUE, get_user_address_to_track, 1) :
        topics \in {<<>>, <<UNKNOWN_TOPIC>>}}

\* Logs of the pool whose payload does not decode as the event their first
\* topic names.
DecodeFailures ==
    {Log(get_pool_v3_address, <<t>>, FALSE, get_user_address_to_track, 1) :
        t \in KnownTopics}

\* Logs of the pool that decode as an event of another user: the amount is
\* not read.
OtherUserLogs ==
    {Log(get_pool_v3_address, <<t>>, TRUE, "other_user", 1) : t \in KnownTopics}

\* Logs of the pool that decode as an event of the tracked user.
CleanLogs ==
    {Log(get_pool_v3_address, <<t>>, TRUE, get_user_address_to_track, amount) :
        t \in KnownTopics, amount \in 1..MaxAmount}

LogValues ==
    ForeignLogs \cup UnclassifiedLogs \cup DecodeFailures \cup OtherUserLogs
        \cup CleanLogs

\* ------------------------------------------------------------- state
VARIABLES
    env,                 \* the process environment (read-only)
    running,             \* FALSE once main has returned after ctrl-c
    POSITION_DATA,       \* the shared position (ethereum.rs:40-42)
    lock,                \* the task holding the mutex of POSITION_DATA
    head,                \* number of the chain's latest block
    stream,              \* block numbers announced on the subscription, unread
    supervisor,          \* where the supervisor loop of main stands
    listener,            \* where ethereum_listening stands
    block,               \* the announced block the listener is handling
    logs_len,            \* number of logs in the batch the log query returned
    logs,                \* the logs of the batch the loop has taken so far
    logs_block,          \* the block those logs belong to
    refresh,             \* the refresh_position_after_* call in progress
    evaluator,           \* where the health evaluator loop stands
    supply_position,     \* the evaluator's snapshot of the position
    is_liquidation_range,\* the verdict of the current cycle
    eval_panic,          \* the message the evaluator task panicked with
    alert_result,        \* what the last send_telegram_alert returned
    fetch_count,         \* per block, how often the log query returned its logs
    handled,             \* the announced blocks whose pass over the batch ended
    breached_cycles,     \* cycles that ended with a verdict of TRUE
    notifier_calls       \* calls of the notifier (bot.send_message)

vars ==
    <<env, running, POSITION_DATA, lock, head, stream, supervisor, listener,
      block,
      logs_len, logs, logs_block, refresh, evaluator, supply_position,
      is_liquidation_range, eval_panic, alert_result, fetch_count, handled,
      breached_cycles, notifier_calls>>

listener_vars == <<listener, block, logs_len, logs, logs_block, refresh>>
evaluator_vars ==
    <<evaluator, supply_position, is_liquidation_range, eval_panic, alert_result>>
chain_vars == <<head, stream>>
ghost_listener == <<fetch_count, handled>>
ghost_evaluator == <<breached_cycles, notifier_calls>>

NoRefresh == [kind |-> "none"]
NoPosition == [supplied_amount |-> 0, borrowed_amount |-> 0]

\* ---------------------------------------------------- position store
\* PositionData::new: both amounts zero.
PositionData_new == [supplied_amount |-> 0, borrowed_amount |-> 0]

\* chains::get_position_data (mod.rs): the configured initial amounts.  It
\* builds a fresh value on every call and is only printed by
\* print_initial_configuration; POSITION_DATA is never set from it.
chains_get_position_data(e) ==
    [supplied_amount |-> e.INITIAL_SUPPLIED_AMOUNT,
     borrowed_amount |-> e.INITIAL_BORROWED_AMOUNT]

\* ethereum_chain::get_position_data: a clone of the value under the lock.
get_position_data(data) == data

\* ethereum_chain::update_supplied_amount / update_borrowed_amount: one field
\* assigned under the lock.
update_supplied_amount(data, new_amount) ==
    [data EXCEPT !.supplied_amount = new_amount]

update_borrowed_amount(data, new_amount) ==
    [data EXCEPT !.borrowed_amount = new_amount]

\* ------------------------------------------------------- conversions
RECURSIVE to_string(_)
\* U256::to_string: the decimal digits, most significant first.
to_string(n) ==
    IF n < 10 THEN <<n>> ELSE Append(to_string(n \div 10), n % 10)

RECURSIVE dec_value(_, _)
dec_value(digits, acc) ==
    IF digits = <<>> THEN acc
    ELSE dec_value(Tail(digits), 10 * acc + Head(digits))

\* U256::from_dec_str: the value of the digits, an error beyond the width.
from_dec_str(digits) ==
    LET v == dec_value(digits, 0)
    IN  IF v > U256_MAX THEN [ok |-> FALSE] ELSE [ok |-> TRUE, value |-> v]

\* H160::from_str(&event.user.to_string()): the same 20 bytes, written as
\* "0x" and hex digits and read back.
address_to_string(a) == <<"0x", a>>
H160_from_str(s) == IF s[1] = "0x" THEN s[2] ELSE s[1]

\* Variant: an addition that wraps modulo 2^256 instead of panicking.
U256_add_wrapping(a, b) ==
    [panic |-> FALSE, value |-> (a + b) % (U256_MAX + 1)]

\* U256 + U256: the uint crate panics on overflow in every build.
U256_add(a, b) ==
    IF a + b > U256_MAX THEN [panic |-> TRUE]
    ELSE [panic |-> FALSE, value |-> a + b]

\* ------------------------------------------- refresh_position_after_*
\* Each takes the snapshot read by get_position_data and the event, and
\* yields the field to write and its new value, or a panic.
refresh_position_after_supply(current_position, event) ==
    LET event_amount == from_dec_str(to_string(event.amount))
        sum == U256_add(current_position.supplied_amount, event_amount.value)
    IN  IF ~event_amount.ok \/ sum.panic THEN [panic |-> TRUE]
        ELSE [panic |-> FALSE, field |-> "supplied_amount", new_amount |-> sum.value]

\* Variant: a Withdraw larger than the balance is an error (a checked
\* subtraction that panics).
refresh_position_after_withdraw_checked(current_position, event) ==
    LET event_amount == from_dec_str(to_string(event.amount))
    IN  IF ~event_amount.ok \/ current_position.supplied_amount < event_amount.value
        THEN [panic |-> TRUE]
        ELSE [panic |-> FALSE, field |-> "supplied_amount",
              new_amount |-> current_position.supplied_amount - event_amount.value]

refresh_position_after_withdraw(current_position, event) ==
    LET event_amount == from_dec_str(to_string(event.amount))
    IN  IF ~event_amount.ok THEN [panic |-> TRUE]
        ELSE [panic |-> FALSE, field |-> "supplied_amount",
              new_amount |->
                  IF current_position.supplied_amount >= event_amount.value
                  THEN current_position.supplied_amount - event_amount.value
                  ELSE 0]

refresh_position_after_repay(current_position, event) ==
    LET event_amount == from_dec_str(to_string(event.amount))
    IN  IF ~event_amount.ok THEN [panic |-> TRUE]
        ELSE [panic |-> FALSE, field |-> "borrowed_amount",
              new_amount |->
                  IF current_position.borrowed_amount >= event_amount.value
                  THEN current_position.borrowed_amount - event_amount.value
                  ELSE 0]

refresh_position_after_borrow(current_position, event) ==
    LET event_amount == from_dec_str(to_string(event.amount))
        sum == U256_add(current_position.borrowed_amount, event_amount.value)
    IN  IF ~event_amount.ok \/ sum.panic THEN [panic |-> TRUE]
        ELSE [panic |-> FALSE, field |-> "borrowed_amount", new_amount |-> sum.value]

refresh_position(kind, current_position, event) ==
    CASE kind = "Supply" -> refresh_position_after_supply(current_position, event)
      [] kind = "Withdraw" -> refresh_position_after_withdraw(current_position, event)
      [] kind = "Repay" -> refresh_position_after_repay(current_position, event)
      [] kind = "Borrow" -> refresh_position_after_borrow(current_position, event)

\* ------------------------------------------------ classifying one log
\* fetch_event::<T>(topic, data, topic_str, ..): None when the topic is not
\* the event's, an error when the payload does not decode, else the event.
fetch_event(topic, log, topic_str) ==
    IF topic # topic_str THEN [t |-> "None"]
    ELSE IF ~log.decodes THEN [t |-> "Err"]
    ELSE [t |-> "Some", event |-> [user |-> log.user, amount |-> log.amount]]

RECURSIVE fetch_events_from_any_user(_, _, _)
\* Variant: the decoded event is applied whoever its user is.
fetch_events_from_any_user(topic, log, k) ==
    IF k > Len(EventKinds) THEN [t |-> "continue"]
    ELSE LET r == fetch_event(topic, log, EventTopics[k])
         IN  IF r.t = "Err" THEN [t |-> "return_err"]
             ELSE IF r.t = "None" THEN fetch_events_from_any_user(topic, log, k + 1)
             ELSE [t |-> "refresh", kind |-> EventKinds[k], event |-> r.event]

RECURSIVE fetch_events_from_known_only(_, _, _)
\* Variant: a first topic that is none of the four signatures is an error.
fetch_events_from_known_only(topic, log, k) ==
    IF k > Len(EventKinds) THEN [t |-> "return_err"]
    ELSE LET r == fetch_event(topic, log, EventTopics[k])
         IN  IF r.t = "Err" THEN [t |-> "return_err"]
             ELSE IF r.t = "None" THEN fetch_events_from_known_only(topic, log, k + 1)
             ELSE IF H160_from_str(address_to_string(r.event.user))
                         # get_user_address_to_track
                  THEN [t |-> "continue"]
                  ELSE [t |-> "refresh", kind |-> EventKinds[k], event |-> r.event]

RECURSIVE fetch_events_from_swapped_kinds(_, _, _)
\* Variant: the event of the k-th signature is handed to the refresh of
\* another kind.
fetch_events_from_swapped_kinds(topic, log, k) ==
    IF k > Len(EventKinds) THEN [t |-> "continue"]
    ELSE LET r == fetch_event(topic, log, EventTopics[k])
         IN  IF r.t = "Err" THEN [t |-> "return_err"]
             ELSE IF r.t = "None" THEN fetch_events_from_swapped_kinds(topic, log, k + 1)
             ELSE IF H160_from_str(address_to_string(r.event.user))
                         # get_user_address_to_track
                  THEN [t |-> "continue"]
                  ELSE [t |-> "refresh",
                        kind |-> EventKinds[Len(EventKinds) + 1 - k],
                        event |-> r.event]

RECURSIVE fetch_events_from(_, _, _)
\* The four fetch_event(..)? attempts from the k-th on: the first error
\* returns from ethereum_listening, the first event decides the log.
fetch_events_from(topic, log, k) ==
    IF k > Len(EventKinds) THEN [t |-> "continue"]
    ELSE LET r == fetch_event(topic, log, EventTopics[k])
         IN  IF r.t = "Err" THEN [t |-> "return_err"]
             ELSE IF r.t = "None" THEN fetch_events_from(topic, log, k + 1)
             ELSE IF H160_from_str(address_to_string(r.event.user))
                         # get_user_address_to_track
                  THEN [t |-> "continue"]
                  ELSE [t |-> "refresh", kind |-> EventKinds[k], event |-> r.event]

\* Variant: the log is decoded whatever its emitting address.
handle_log_any_address(log, aave_pool_v3_address) ==
    IF log.topics = <<>> THEN [t |-> "continue"]
    ELSE fetch_events_from(log.topics[1], log, 1)

\* The body of `for log in logs` up to the refresh_position_after_* call.
handle_log(log, aave_pool_v3_address) ==
    IF log.address # aave_pool_v3_address THEN [t |-> "continue"]
    ELSE IF log.topics = <<>> THEN [t |-> "continue"]
    ELSE fetch_events_from(log.topics[1], log, 1)

\* ethereum.rs:205, 222-240: the filter of the log query.  It selects the
\* latest block and the four signatures as first topic; its address is never
\* set, so it stays the None of Filter::new() and any emitter matches.
filter ==
    [block_option |-> "Latest", address |-> "None", topics |-> KnownTopics]

\* eth_getLogs: whether a log of the selected block matches a filter.
get_logs_matches(f, log) ==
    /\ f.address = "None" \/ log.address = f.address
    /\ log.topics # <<>>
    /\ log.topics[1] \in f.topics

\* The logs the query with `filter` returns from a node that applies it.
FilteredLogs == {log \in LogValues : get_logs_matches(filter, log)}

\* --------------------------------------------------- health evaluator
\* An f64 of the evaluator: a finite value num / (den * 10^scale), or the
\* infinity or NaN a division by zero yields.
F64(num, den, scale) == [class |-> "finite", num |-> num, den |-> den, scale |-> scale]

\* U256::to_string().parse::<f64>(): the decimal digits read as a float.
parse_f64(digits) == F64(dec_value(digits, 0), 1, 0)

\* price * amount / 10_f64.powf(decimals)
in_usd(price, amount_f64, decimals) ==
    F64(price * amount_f64.num, amount_f64.den, amount_f64.scale + decimals)

\* a / b on f64: x / 0 is +inf for x > 0 and NaN for x = 0.
f64_div(a, b) ==
    IF b.num = 0
    THEN IF a.num = 0 THEN [class |-> "nan"] ELSE [class |-> "inf"]
    ELSE F64(a.num * b.den, a.den * b.num, a.scale - b.scale)

Pow10(k) == 10^k

\* a > num/den on f64: false for NaN, true for +inf.  Neither num/den (0.89)
\* nor the quotients that led to a are doubles in general: where the exact
\* value of a is num/den, the double a is the double of num/den or a
\* neighbour of it, and the comparison is true exactly when the roundings
\* have left a above (rounded_up).
f64_gt(a, num, den, rounded_up) ==
    CASE a.class = "nan" -> FALSE
      [] a.class = "inf" -> TRUE
      [] OTHER ->
            LET lhs == IF a.scale >= 0 THEN a.num * den
                       ELSE a.num * den * Pow10(0 - a.scale)
                rhs == IF a.scale >= 0 THEN num * a.den * Pow10(a.scale)
                       ELSE num * a.den
            IN  IF lhs = rhs THEN rounded_up ELSE lhs > rhs

\* is_health_factor_in_liquidation_range from the snapshot and the two
\* prices on (main.rs:100-134).
health_factor(position, supply_price, borrowed_price) ==
    LET supply_amount_f64 == parse_f64(to_string(position.supplied_amount))
        borrowed_amount_f64 == parse_f64(to_string(position.borrowed_amount))
        supply_in_usd ==
            in_usd(supply_price, supply_amount_f64, get_supply_token_decimals)
        borrowed_in_usd ==
            in_usd(borrowed_price, borrowed_amount_f64, get_borrowed_token_decimals)
    IN  f64_div(borrowed_in_usd, supply_in_usd)

is_health_factor_in_liquidation_range(position, supply_price, borrowed_price, rounded_up) ==
    f64_gt(health_factor(position, supply_price, borrowed_price),
           liquidation_threshold_num, liquidation_threshold_den, rounded_up)

\* What get_price(..).await yields: an error, no price, or a price.
\* The prices quoted: the small ones, and those that put equal amounts of
\* the two tokens at multiples of the threshold.
PriceQuotes ==
    (0..MaxPrice) \cup {liquidation_threshold_num * p : p \in 1..MaxPrice}
PriceResults ==
    {[t |-> "Err"], [t |-> "None"]} \cup {[t |-> "Some", price |-> p] : p \in PriceQuotes}
IsPrice(r) == r.t = "Some"

\* -------------------------------------------------------------- init
Init ==
    /\ env \in EnvValues
    /\ running = TRUE
    /\ POSITION_DATA = PositionData_new
    /\ lock = "free"
    /\ head = 0
    /\ stream = <<>>
    /\ supervisor = "spawn"
    /\ listener = "not_spawned"
    /\ block = 0
    /\ logs = <<>>
    /\ logs_block = 0
    /\ logs_len = 0
    /\ refresh = NoRefresh
    /\ evaluator = "sleep"
    /\ supply_position = NoPosition
    /\ is_liquidation_range = FALSE
    /\ eval_panic = "none"
    /\ alert_result = "none"
    /\ fetch_count = [n \in 1..MaxBlocks |-> 0]
    /\ handled = {}
    /\ breached_cycles = 0
    /\ notifier_calls = 0

\* ------------------------------------------------------------- chain
Subscribed == listener \in {"stream_next", "get_logs", "for_log", "refresh"}

\* The chain produces a block; a live subscription announces it.
NewBlock ==
    /\ running
    /\ head < MaxBlocks
    /\ head' = head + 1
    /\ stream' = IF Subscribed THEN Append(stream, head + 1) ELSE stream
    /\ UNCHANGED <<env, lock, running, POSITION_DATA, supervisor, listener_vars,
                   evaluator_vars, ghost_listener, ghost_evaluator>>

\* -------------------------------------------------------- supervisor
ListenerEnded == listener \in {"returned_ok", "returned_err", "panicked"}

\* Variant: the start of a listener run sets the position anew.
supervisor_spawn_new_position ==
    /\ running
    /\ supervisor = "spawn"
    /\ supervisor' = "await"
    /\ listener' = "connecting"
    /\ POSITION_DATA' = PositionData_new
    /\ UNCHANGED <<env, lock, running, chain_vars, block, logs_len,
                   logs, logs_block, refresh, evaluator_vars, ghost_listener,
                   ghost_evaluator>>

\* main.rs:48-53: tokio::spawn of a new ethereum_listening run.
supervisor_spawn ==
    /\ running
    /\ supervisor = "spawn"
    /\ supervisor' = "await"
    /\ listener' = "connecting"
    /\ UNCHANGED <<env, lock, running, POSITION_DATA, chain_vars, block, logs_len,
                   logs, logs_block, refresh, evaluator_vars, ghost_listener,
                   ghost_evaluator>>

\* Variant: the supervisor starts the next run as soon as the run has
\* ended, without the sleep.
supervisor_join_no_sleep ==
    /\ running
    /\ supervisor = "await"
    /\ ListenerEnded
    /\ supervisor' = "spawn"
    /\ UNCHANGED <<env, lock, running, POSITION_DATA, chain_vars, listener_vars,
                   evaluator_vars, ghost_listener, ghost_evaluator>>

\* Variant: the handle of the run is not awaited; the loop goes on to the
\* sleep whatever the run is doing.
supervisor_join_detached ==
    /\ running
    /\ supervisor = "await"
    /\ supervisor' = "sleep"
    /\ UNCHANGED <<env, lock, running, POSITION_DATA, chain_vars, listener_vars,
                   evaluator_vars, ghost_listener, ghost_evaluator>>

\* Variant: the supervisor goes on only after a run that returned; the
\* panic of a run is not caught.
supervisor_join_returned ==
    /\ running
    /\ supervisor = "await"
    /\ listener \in {"returned_ok", "returned_err"}
    /\ supervisor' = "sleep"
    /\ UNCHANGED <<env, lock, running, POSITION_DATA, chain_vars, listener_vars,
                   evaluator_vars, ghost_listener, ghost_evaluator>>

\* main.rs:54-63: handle0.await returns once the run has ended, by return
\* or by panic; either way the loop goes on.
supervisor_join ==
    /\ running
    /\ supervisor = "await"
    /\ ListenerEnded
    /\ supervisor' = "sleep"
    /\ UNCHANGED <<env, lock, running, POSITION_DATA, chain_vars, listener_vars,
                   evaluator_vars, ghost_listener, ghost_evaluator>>

\* main.rs:64: the 200 ms sleep, then the next iteration of the loop.
supervisor_sleep ==
    /\ running
    /\ supervisor = "sleep"
    /\ supervisor' = "spawn"
    /\ UNCHANGED <<env, lock, running, POSITION_DATA, chain_vars, listener_vars,
                   evaluator_vars, ghost_listener, ghost_evaluator>>

\* ---------------------------------------------------------- listener
\* Variant: a run that has connected starts from a position set anew.
ethereum_listening_subscribe_new_position ==
    /\ running
    /\ listener = "connecting"
    /\ listener' = "stream_next"
    /\ stream' = <<>>
    /\ POSITION_DATA' = PositionData_new
    /\ UNCHANGED <<env, lock, running, head, supervisor, block, logs_len,
                   logs, logs_block, refresh, evaluator_vars, ghost_listener,
                   ghost_evaluator>>

\* ethereum.rs:193-240: connected and subscribed; the subscription starts
\* with no block announced.
ethereum_listening_subscribe ==
    /\ running
    /\ listener = "connecting"
    /\ listener' = "stream_next"
    /\ stream' = <<>>
    /\ UNCHANGED <<env, lock, running, POSITION_DATA, head, supervisor, block, logs_len,
                   logs, logs_block, refresh, evaluator_vars, ghost_listener,
                   ghost_evaluator>>

\* ethereum.rs:195-220: Ws::connect, subscribe_blocks or an address parse
\* fails and `?` returns the error.
ethereum_listening_connect_err ==
    /\ running
    /\ listener = "connecting"
    /\ listener' = "returned_err"
    /\ UNCHANGED <<env, lock, running, POSITION_DATA, chain_vars, supervisor, block,
                   logs_len, logs, logs_block, refresh, evaluator_vars,
                   ghost_listener, ghost_evaluator>>

\* ethereum.rs:263-264: stream.next() yields the next announced block.
ethereum_listening_next_block ==
    /\ running
    /\ listener = "stream_next"
    /\ stream # <<>>
    /\ block' = Head(stream)
    /\ stream' = Tail(stream)
    /\ listener' = "get_logs"
    /\ UNCHANGED <<env, lock, running, POSITION_DATA, head, supervisor, logs_len,
                   logs, logs_block, refresh, evaluator_vars, ghost_listener,
                   ghost_evaluator>>

\* ethereum.rs:263, 368: stream.next() yields None (the subscription broke)
\* and the function returns Ok(()).
ethereum_listening_stream_end ==
    /\ running
    /\ listener = "stream_next"
    /\ listener' = "returned_ok"
    /\ stream' = <<>>
    /\ block' = 0
    /\ UNCHANGED <<env, lock, running, POSITION_DATA, head, supervisor, logs_len,
                   logs, logs_block, refresh, evaluator_vars, ghost_listener,
                   ghost_evaluator>>

\* The end of the pass over a batch for the announced block: back to
\* stream.next().
PassDone ==
    /\ listener' = "stream_next"
    /\ logs' = <<>>
    /\ logs_len' = 0
    /\ logs_block' = 0
    /\ handled' = handled \cup {block}

\* `continue` or the end of the loop body, `taken` being the logs the loop
\* has taken from the batch: on to the next one, or the end of the pass.
NextLog(taken) ==
    IF Len(taken) < logs_len
    THEN /\ listener' = "for_log"
         /\ logs' = taken
         /\ UNCHANGED <<logs_len, logs_block, handled>>
    ELSE PassDone

\* The run ends inside the pass (an error returned, or a panic).
RunEnds(how) ==
    /\ listener' = how
    /\ logs' = <<>>
    /\ logs_len' = 0
    /\ logs_block' = 0
    /\ block' = 0
    /\ stream' = <<>>

\* ethereum.rs:205, 271-272: get_logs with the filter on BlockNumber::Latest
\* returns the logs of the block that is the latest when the query runs:
\* a batch of some length of Lens, whose logs the loop takes one by one.
ethereum_listening_get_logs(Lens) ==
    /\ running
    /\ listener = "get_logs"
    /\ fetch_count' = [fetch_count EXCEPT ![head] = @ + 1]
    /\ \E n \in Lens :
           IF n = 0
           THEN PassDone
           ELSE /\ listener' = "for_log"
                /\ logs' = <<>>
                /\ logs_len' = n
                /\ logs_block' = head
                /\ UNCHANGED handled
    /\ UNCHANGED <<env, lock, running, POSITION_DATA, chain_vars, supervisor, block,
                   refresh, evaluator_vars, ghost_evaluator>>

\* ethereum.rs:360-363: get_logs fails and the function returns the error.
ethereum_listening_get_logs_err ==
    /\ running
    /\ listener = "get_logs"
    /\ RunEnds("returned_err")
    /\ UNCHANGED <<env, lock, running, POSITION_DATA, head, supervisor, refresh,
                                      evaluator_vars, ghost_listener, ghost_evaluator>>

\* Variant: a log equal to the one taken before it is dropped.
for_log_dedup(next) ==
    /\ listener = "for_log"
    /\ LET r == IF logs # <<>> /\ next = logs[Len(logs)]
                THEN [t |-> "continue"]
                ELSE handle_log(next, get_pool_v3_address)
           taken == Append(logs, next)
       IN  CASE r.t = "continue" ->
                    /\ NextLog(taken)
                    /\ UNCHANGED <<block, stream, refresh>>
             [] r.t = "return_err" ->
                    /\ RunEnds("returned_err")
                    /\ UNCHANGED <<refresh, handled>>
             [] r.t = "refresh" ->
                    /\ refresh' = [kind |-> r.kind, event |-> r.event,
                                   current_position |->
                                       get_position_data(POSITION_DATA)]
                    /\ listener' = "refresh"
                    /\ logs' = taken
                    /\ UNCHANGED <<block, stream, logs_len, logs_block, handled>>
    /\ UNCHANGED <<env, lock, running, POSITION_DATA, head, supervisor,
                   evaluator_vars, fetch_count, ghost_evaluator>>

\* ethereum.rs:273-357, one iteration of `for log in logs` for the log
\* `next`, up to and including the get_position_data() of
\* refresh_position_after_*.  The loop awaits nothing, so it goes on after
\* ctrl-c until the task reaches its next await.
for_log(next) ==
    /\ listener = "for_log"
    /\ LET r == handle_log(next, get_pool_v3_address)
           taken == Append(logs, next)
       IN  CASE r.t = "continue" ->
                    /\ NextLog(taken)
                    /\ UNCHANGED <<block, stream, refresh>>
             [] r.t = "return_err" ->
                    /\ RunEnds("returned_err")
                    /\ UNCHANGED <<refresh, handled>>
             [] r.t = "refresh" ->
                    /\ refresh' = [kind |-> r.kind, event |-> r.event,
                                   current_position |->
                                       get_position_data(POSITION_DATA)]
                    /\ listener' = "refresh"
                    /\ logs' = taken
                    /\ UNCHANGED <<block, stream, logs_len, logs_block, handled>>
    /\ UNCHANGED <<env, lock, running, POSITION_DATA, head, supervisor,
                   evaluator_vars, fetch_count, ghost_evaluator>>

\* The loop takes the next log of the batch, any log of S.
ethereum_listening_for_log(S) ==
    /\ listener = "for_log"
    /\ \E next \in S : for_log(next)

\* The rest of refresh_position_after_*: the new amount from the snapshot,
\* then update_supplied_amount / update_borrowed_amount, then `continue`.
ethereum_listening_refresh ==
    /\ listener = "refresh"
    /\ LET r == refresh_position(refresh.kind, refresh.current_position, refresh.event)
       IN  IF r.panic
           THEN /\ RunEnds("panicked")
                /\ UNCHANGED <<POSITION_DATA, handled>>
           ELSE /\ POSITION_DATA' =
                       IF r.field = "supplied_amount"
                       THEN update_supplied_amount(POSITION_DATA, r.new_amount)
                       ELSE update_borrowed_amount(POSITION_DATA, r.new_amount)
                /\ NextLog(logs)
                /\ UNCHANGED <<block, stream>>
    /\ refresh' = NoRefresh
    /\ UNCHANGED <<env, lock, running, head, supervisor, evaluator_vars,
                   fetch_count, ghost_evaluator>>

\* --------------------------------------------------------- evaluator
\* Variant: a cycle starts only while no listener run has failed.
evaluator_read_position_while_listening ==
    /\ running
    /\ evaluator = "sleep"
    /\ ~ListenerEnded
    /\ breached_cycles < MaxCycles
    /\ supply_position' = get_position_data(POSITION_DATA)
    /\ evaluator' = "get_price"
    /\ UNCHANGED <<env, lock, running, POSITION_DATA, chain_vars, supervisor,
                   listener_vars, is_liquidation_range, eval_panic,
                   alert_result, ghost_listener, ghost_evaluator>>

\* main.rs:71, 94-101: the 2 s sleep ends and the cycle starts with
\* get_position_data().
evaluator_read_position ==
    /\ running
    /\ evaluator = "sleep"
    /\ breached_cycles < MaxCycles
    /\ supply_position' = get_position_data(POSITION_DATA)
    /\ evaluator' = "get_price"
    /\ UNCHANGED <<env, lock, running, POSITION_DATA, chain_vars, supervisor,
                   listener_vars, is_liquidation_range, eval_panic,
                   alert_result, ghost_listener, ghost_evaluator>>

\* The outcome of main.rs:113-134 for the two get_price results: the
\* .expect()s panic on an error or an absent price, else the verdict.
evaluate(position, supply_price, borrowed_price, rounded_up) ==
    IF ~IsPrice(supply_price)
    THEN [panic |-> "Failed to get supply price"]
    ELSE IF ~IsPrice(borrowed_price)
    THEN [panic |-> "Failed to get borrowed price"]
    ELSE [panic |-> "none",
          verdict |-> is_health_factor_in_liquidation_range(
                          position, supply_price.price, borrowed_price.price,
                          rounded_up)]

\* main.rs:72-74, 113-134: the two price lookups and the verdict; a panic
\* ends the evaluator task, which nothing restarts.
evaluator_get_prices ==
    /\ running
    /\ evaluator = "get_price"
    /\ \E supply_price \in PriceResults, borrowed_price \in PriceResults,
          rounded_up \in BOOLEAN :
           LET r == evaluate(supply_position, supply_price, borrowed_price,
                             rounded_up)
           IN  IF r.panic # "none"
               THEN /\ evaluator' = "panicked"
                    /\ eval_panic' = r.panic
                    /\ UNCHANGED is_liquidation_range
               ELSE /\ evaluator' = "send_telegram_alert"
                    /\ is_liquidation_range' = r.verdict
                    /\ UNCHANGED eval_panic
    /\ supply_position' = NoPosition
    /\ UNCHANGED <<env, lock, running, POSITION_DATA, chain_vars, supervisor,
                   listener_vars, alert_result, ghost_listener,
                   ghost_evaluator>>

\* send_telegram_alert (main.rs:138-179) for a verdict, in an environment,
\* with the notifier answering `sent`: whether it panics, whether the
\* notifier is called, and what it returns.
send_telegram_alert(verdict, telegram, sent) ==
    IF telegram = "token_unset"
    THEN [panic |-> "TELEGRAM_BOT_TOKEN environment variable not set",
          called |-> FALSE, result |-> "none"]
    ELSE IF telegram = "chat_id_not_u64"
    THEN [panic |-> "none", called |-> FALSE, result |-> "Err"]
    ELSE IF verdict
    THEN [panic |-> "none", called |-> TRUE,
          result |-> IF sent THEN "Ok" ELSE "Err"]
    ELSE [panic |-> "none", called |-> FALSE, result |-> "Ok"]

\* Variant: an Err of send_telegram_alert is unwrapped and ends the task.
evaluator_send_alert_unwrap ==
    /\ evaluator = "send_telegram_alert"
    /\ running \/ ~send_telegram_alert(is_liquidation_range, env.TELEGRAM, TRUE).called
    /\ \E sent \in BOOLEAN :
           LET r == send_telegram_alert(is_liquidation_range, env.TELEGRAM, sent)
           IN  IF r.panic # "none" \/ r.result = "Err"
               THEN /\ evaluator' = "panicked"
                    /\ eval_panic' = IF r.panic # "none" THEN r.panic
                                     ELSE "Failed to send Telegram alert"
                    /\ alert_result' = r.result
                    /\ notifier_calls' = notifier_calls + (IF r.called THEN 1 ELSE 0)
                    /\ UNCHANGED breached_cycles
               ELSE /\ evaluator' = "sleep"
                    /\ alert_result' = r.result
                    /\ notifier_calls' = notifier_calls + (IF r.called THEN 1 ELSE 0)
                    /\ breached_cycles' =
                           breached_cycles + (IF is_liquidation_range THEN 1 ELSE 0)
                    /\ UNCHANGED eval_panic
    /\ is_liquidation_range' = FALSE
    /\ UNCHANGED <<env, lock, running, POSITION_DATA, chain_vars, supervisor,
                   listener_vars, supply_position, ghost_listener>>

\* main.rs:76-80: send_telegram_alert(is_liquidation_range); an Err is
\* printed and the loop goes on to the next sleep.  The call awaits only
\* the notifier: where it does not call it, it goes on after ctrl-c.
evaluator_send_alert ==
    /\ evaluator = "send_telegram_alert"
    /\ running \/ ~send_telegram_alert(is_liquidation_range, env.TELEGRAM, TRUE).called
    /\ \E sent \in BOOLEAN :
           LET r == send_telegram_alert(is_liquidation_range, env.TELEGRAM, sent)
           IN  IF r.panic # "none"
               THEN /\ evaluator' = "panicked"
                    /\ eval_panic' = r.panic
                    /\ UNCHANGED <<alert_result, ghost_evaluator>>
               ELSE /\ evaluator' = "sleep"
                    /\ alert_result' = r.result
                    /\ notifier_calls' = notifier_calls + (IF r.called THEN 1 ELSE 0)
                    /\ breached_cycles' =
                           breached_cycles + (IF is_liquidation_range THEN 1 ELSE 0)
                    /\ UNCHANGED eval_panic
    /\ is_liquidation_range' = FALSE
    /\ UNCHANGED <<env, lock, running, POSITION_DATA, chain_vars, supervisor,
                   listener_vars, supply_position, ghost_listener>>

\* ------------------------------------------- the position lock, by step
\* The actions above take and release the mutex of POSITION_DATA within one
\* step.  Those below take the same accesses apart: the lock() call, what is
\* done under the guard, and the drop of the guard.

\* Variant: the evaluator copies the position without taking the lock.
get_position_data_unlocked ==
    /\ running
    /\ evaluator = "sleep"
    /\ breached_cycles < MaxCycles
    /\ evaluator' = "clone_supplied"
    /\ UNCHANGED <<env, lock, running, POSITION_DATA, chain_vars, supervisor,
                   listener_vars, supply_position, is_liquidation_range,
                   eval_panic, alert_result, ghost_listener, ghost_evaluator>>

\* ethereum.rs:45-49 called from main.rs:94: the sleep ends and
\* POSITION_DATA.lock() returns the guard.
get_position_data_lock ==
    /\ running
    /\ evaluator = "sleep"
    /\ breached_cycles < MaxCycles
    /\ lock = "free"
    /\ lock' = "evaluator"
    /\ evaluator' = "clone_supplied"
    /\ UNCHANGED <<env, running, POSITION_DATA, chain_vars, supervisor,
                   listener_vars, supply_position, is_liquidation_range,
                   eval_panic, alert_result, ghost_listener, ghost_evaluator>>

\* ethereum.rs:48, data.clone(): the first field is copied.
get_position_data_clone_supplied ==
    /\ evaluator = "clone_supplied"
    /\ supply_position' =
           [supply_position EXCEPT !.supplied_amount = POSITION_DATA.supplied_amount]
    /\ evaluator' = "clone_borrowed"
    /\ UNCHANGED <<env, lock, running, POSITION_DATA, chain_vars, supervisor,
                   listener_vars, is_liquidation_range, eval_panic,
                   alert_result, ghost_listener, ghost_evaluator>>

\* Variant: the guard outlives get_position_data and is held over the price
\* lookups.
get_position_data_clone_borrowed_guard_kept ==
    /\ evaluator = "clone_borrowed"
    /\ supply_position' =
           [supply_position EXCEPT !.borrowed_amount = POSITION_DATA.borrowed_amount]
    /\ evaluator' = "get_price"
    /\ UNCHANGED <<env, lock, running, POSITION_DATA, chain_vars, supervisor,
                   listener_vars, is_liquidation_range, eval_panic,
                   alert_result, ghost_listener, ghost_evaluator>>

\* ethereum.rs:48-49, data.clone(): the second field is copied, and the
\* guard is dropped as get_position_data returns.
get_position_data_clone_borrowed ==
    /\ evaluator = "clone_borrowed"
    /\ supply_position' =
           [supply_position EXCEPT !.borrowed_amount = POSITION_DATA.borrowed_amount]
    /\ lock' = IF lock = "evaluator" THEN "free" ELSE lock
    /\ evaluator' = "get_price"
    /\ UNCHANGED <<env, running, POSITION_DATA, chain_vars, supervisor,
                   listener_vars, is_liquidation_range, eval_panic,
                   alert_result, ghost_listener, ghost_evaluator>>

\* ethereum.rs:273-357 with the get_position_data() of
\* refresh_position_after_* (ethereum.rs:45-49): the listener's snapshot is
\* taken once the lock is free.
for_log_locked(S) ==
    /\ lock = "free"
    /\ ethereum_listening_for_log(S)

\* ethereum.rs:134-136, 183: the new amount is computed from the snapshot,
\* with no lock held; an overflowing sum panics.
refresh_position_panic ==
    /\ listener = "refresh"
    /\ refresh_position(refresh.kind, refresh.current_position, refresh.event).panic
    /\ ethereum_listening_refresh

\* ethereum.rs:53-56, 62-65: POSITION_DATA.lock() in update_supplied_amount /
\* update_borrowed_amount returns the guard.
update_amount_lock ==
    /\ listener = "refresh"
    /\ ~refresh_position(refresh.kind, refresh.current_position, refresh.event).panic
    /\ lock = "free"
    /\ lock' = "listener"
    /\ listener' = "update"
    /\ UNCHANGED <<env, running, POSITION_DATA, chain_vars, supervisor, block,
                   logs_len, logs, logs_block, refresh, evaluator_vars,
                   ghost_listener, ghost_evaluator>>

\* ethereum.rs:57-58, 66-67: the field is assigned under the guard, the
\* guard is dropped and the loop goes on.
update_amount_assign ==
    /\ listener = "update"
    /\ LET r == refresh_position(refresh.kind, refresh.current_position, refresh.event)
       IN  POSITION_DATA' =
               IF r.field = "supplied_amount"
               THEN update_supplied_amount(POSITION_DATA, r.new_amount)
               ELSE update_borrowed_amount(POSITION_DATA, r.new_amount)
    /\ lock' = IF lock = "listener" THEN "free" ELSE lock
    /\ NextLog(logs)
    /\ refresh' = NoRefresh
    /\ UNCHANGED <<env, running, chain_vars, supervisor, block, evaluator_vars,
                   fetch_count, ghost_evaluator>>

\* main.rs:83-86: ctrl-c arrives, main returns and the runtime is dropped:
\* a task is dropped at the await it stands at, or at the next one it
\* reaches, and no step that awaits is taken any more.
shutdown ==
    /\ running
    /\ running' = FALSE
    /\ UNCHANGED <<env, lock, POSITION_DATA, chain_vars, supervisor, listener_vars,
                   evaluator_vars, ghost_listener, ghost_evaluator>>

\* ------------------------------------------------------ specifications
SupervisorNext == supervisor_spawn \/ supervisor_join \/ supervisor_sleep

ListenerNext(Lens, S) ==
    \/ ethereum_listening_subscribe
    \/ ethereum_listening_connect_err
    \/ ethereum_listening_next_block
    \/ ethereum_listening_stream_end
    \/ ethereum_listening_get_logs(Lens)
    \/ ethereum_listening_get_logs_err
    \/ ethereum_listening_for_log(S)
    \/ ethereum_listening_refresh

EvaluatorNext ==
    \/ evaluator_read_position
    \/ evaluator_get_prices
    \/ evaluator_send_alert

\* A batch that is empty or holds one log.
EmptyOrSingle == {0, 1}

\* A block arrives when the listener waits for one.
NewBlockAwaited == listener = "stream_next" /\ stream = <<>> /\ NewBlock

\* The whole process up to ctrl-c: a block arrives when the listener waits
\* for one, and the log query answers with at most one log, of the tracked
\* pool and user.
Next ==
    \/ NewBlockAwaited
    \/ SupervisorNext
    \/ ListenerNext(EmptyOrSingle, CleanLogs)
    \/ EvaluatorNext

Spec == Init /\ [][Next]_vars

\* The chain, the supervisor and the listener, the log query answering
\* with every sort of log.
ListenerInit == Init /\ env = DefaultEnv

NextListener ==
    \/ NewBlockAwaited
    \/ SupervisorNext
    \/ ListenerNext(0..MaxLogs, LogValues)

SpecListener == ListenerInit /\ [][NextListener]_vars

\* The chain, the supervisor and the listener, the log query answering
\* with the logs that match its filter.
NextFiltered ==
    \/ NewBlockAwaited
    \/ SupervisorNext
    \/ ListenerNext(0..MaxLogs, FilteredLogs)

SpecFiltered == ListenerInit /\ [][NextFiltered]_vars

\* The listener and the evaluator with the accesses to POSITION_DATA taken
\* apart into the steps of the lock.
ListenerLockedNext ==
    \/ ethereum_listening_subscribe
    \/ ethereum_listening_connect_err
    \/ ethereum_listening_next_block
    \/ ethereum_listening_stream_end
    \/ ethereum_listening_get_logs(EmptyOrSingle)
    \/ ethereum_listening_get_logs_err
    \/ for_log_locked(CleanLogs)
    \/ refresh_position_panic
    \/ update_amount_lock
    \/ update_amount_assign

EvaluatorLockedNext ==
    \/ get_position_data_lock
    \/ get_position_data_clone_supplied
    \/ get_position_data_clone_borrowed
    \/ evaluator_get_prices
    \/ evaluator_send_alert

NextLock ==
    \/ NewBlockAwaited
    \/ SupervisorNext
    \/ ListenerLockedNext
    \/ EvaluatorLockedNext

SpecLock == ListenerInit /\ [][NextLock]_vars

\* The same under the scheduling of the two tasks at the lock.  Both run on
\* threads of the tokio runtime, and lock() blocks the thread: a thread
\* that holds the guard runs on to the drop of it (the copy, the
\* assignment and the overflow check await nothing), and a thread blocked
\* in lock() is woken when the guard is dropped and gets the lock, the
\* other task coming back for it only after its next await (the 2 s sleep
\* and the price lookups, or the next log).
SpecLockLive ==
    /\ ListenerInit
    /\ [][NextLock]_vars
    /\ SF_vars(get_position_data_lock)
    /\ WF_vars(get_position_data_clone_supplied)
    /\ WF_vars(get_position_data_clone_borrowed)
    /\ SF_vars(for_log_locked(CleanLogs))
    /\ WF_vars(refresh_position_panic)
    /\ SF_vars(update_amount_lock)
    /\ WF_vars(update_amount_assign)

\* The chain, the supervisor and the listener, blocks arriving at any time,
\* under the scheduling of the supervisor task: tokio runs a task that is
\* ready, handle0.await returns once the run has ended and the 200 ms sleep
\* ends.
NextSupervised ==
    \/ NewBlock
    \/ SupervisorNext
    \/ ListenerNext(EmptyOrSingle, CleanLogs)

SpecLive ==
    /\ ListenerInit
    /\ [][NextSupervised]_vars
    /\ WF_vars(supervisor_spawn)
    /\ WF_vars(supervisor_join)
    /\ WF_vars(supervisor_sleep)

\* The whole process with ctrl-c, under the scheduling of tokio: a task
\* that can take a step takes one.
NextShutdown == Next \/ shutdown

SpecShutdown ==
    /\ ListenerInit
    /\ [][NextShutdown]_vars
    /\ WF_vars(SupervisorNext)
    /\ WF_vars(ListenerNext(EmptyOrSingle, CleanLogs))
    /\ WF_vars(EvaluatorNext)

\* ------------------------------------------------------------ claims
Max(a, b) == IF a >= b THEN a ELSE b

\* The reference fold of one delta over unbounded integers.
RefApply(position, kind, a) ==
    CASE kind = "Supply" ->
             [position EXCEPT !.supplied_amount = @ + a]
      [] kind = "Withdraw" ->
             [position EXCEPT !.supplied_amount = Max(0, @ - a)]
      [] kind = "Repay" ->
             [position EXCEPT !.borrowed_amount = Max(0, @ - a)]
      [] kind = "Borrow" ->
             [position EXCEPT !.borrowed_amount = @ + a]

\* The new amount of the delta fits the 256 bits of a U256.
FitsU256(position, kind, a) ==
    /\ RefApply(position, kind, a).supplied_amount <= U256_MAX
    /\ RefApply(position, kind, a).borrowed_amount <= U256_MAX

AmountsInRange ==
    /\ POSITION_DATA.supplied_amount \in U256
    /\ POSITION_DATA.borrowed_amount \in U256

\* The last log the loop has taken from the batch it is passing over.
LastTaken == logs[Len(logs)]

\* C1 as stated: every applied delta leaves the stored position equal to the
\* reference fold (Supply and Borrow add, Withdraw and Repay subtract and
\* clamp at 0, the other field unchanged), and both fields are >= 0 in every
\* reachable state.
C1_FoldUnbounded ==
    /\ []AmountsInRange
    /\ [][ethereum_listening_refresh
             => POSITION_DATA' =
                    RefApply(POSITION_DATA, refresh.kind, refresh.event.amount)]_vars

\* C1, amended: every applied delta whose new amount fits 256 bits leaves the
\* stored position equal to the reference fold; a Supply or Borrow whose sum
\* does not fit panics, leaves the position as it was and ends the listener
\* run; both fields are >= 0 (and within 256 bits) in every reachable state.
C1_FoldWithin256Bits ==
    /\ []AmountsInRange
    /\ [][ethereum_listening_refresh
             => IF FitsU256(POSITION_DATA, refresh.kind, refresh.event.amount)
                THEN POSITION_DATA' =
                         RefApply(POSITION_DATA, refresh.kind, refresh.event.amount)
                ELSE POSITION_DATA' = POSITION_DATA /\ listener' = "panicked"]_vars

\* A Withdraw of the tracked user has been applied after a Borrow, and the
\* loop has moved on to the next log of the batch.
C1_Witness ==
    /\ listener = "for_log"
    /\ logs # <<>>
    /\ LastTaken \in CleanLogs
    /\ LastTaken.topics[1] = WITHDRAW_EVENT_TOPIC
    /\ POSITION_DATA.supplied_amount = 0
    /\ POSITION_DATA.borrowed_amount > 0

\* C2 as stated: the logs of every announced block whose pass has ended
\* were returned by the log query exactly once, so that each was applied
\* once: never zero times, never twice.
C2_EachBlockFetchedOnce ==
    \A n \in handled : fetch_count[n] = 1

\* C3 as stated: a log of the batch that fails to decode is skipped and the
\* pass goes on: to the next log of the batch, or to the next block when
\* the log was the last one.  (A step either goes on so, or is not the
\* taking of a log that fails to decode.)
C3_DecodeFailureSkipped ==
    [][\/ listener' \in {"for_log", "stream_next"}
       \/ ~ \E log \in DecodeFailures : for_log(log)]_vars

\* The loop goes on to the next log, or to the next block after the last
\* one, with the position as it was and no apply started.
LogSkipped ==
    /\ POSITION_DATA' = POSITION_DATA
    /\ refresh' = NoRefresh
    /\ listener' \in {"for_log", "stream_next"}

\* C4: a log emitted by another address than the tracked pool never changes
\* the position, whatever its first topic: the loop goes on to the next log
\* (or the next block) with no apply started and no decode error returned.
\* (A step either goes on so, or is not the taking of such a log.)
C4_ForeignLogRejected ==
    [][LogSkipped \/ ~ \E log \in ForeignLogs : for_log(log)]_vars

\* The loop has taken a log of another contract whose first topic is the
\* Supply signature and whose payload does not decode, after a delta was
\* applied, and has moved on to the next log.
C4_Witness ==
    /\ listener = "for_log"
    /\ logs # <<>>
    /\ LastTaken.address # get_pool_v3_address
    /\ LastTaken.topics = <<SUPPLY_EVENT_TOPIC>>
    /\ ~LastTaken.decodes
    /\ POSITION_DATA # PositionData_new

\* C5: a decoded event of any of the four kinds whose user is not the
\* tracked user is discarded: the position is unchanged, no apply is
\* started and the loop goes on to the next log (or the next block).
\* (A step either goes on so, or is not the taking of such a log.)
C5_OtherUserDiscarded ==
    [][LogSkipped \/ ~ \E log \in OtherUserLogs : for_log(log)]_vars

\* The loop has taken a Borrow of another user, after a delta was applied,
\* and has moved on to the next log.
C5_Witness ==
    /\ listener = "for_log"
    /\ logs # <<>>
    /\ LastTaken \in OtherUserLogs
    /\ LastTaken.topics = <<BORROW_EVENT_TOPIC>>
    /\ POSITION_DATA # PositionData_new

\* C6: whenever a run of ethereum_listening has ended (an error returned,
\* the end of the block stream, or a panic), the supervisor eventually
\* starts a new run.
C6_ListenerRestarted ==
    ListenerEnded ~> listener = "connecting"

\* A new run has been spawned after a run that handled a block.
C6_Witness ==
    /\ listener = "connecting"
    /\ supervisor = "await"
    /\ handled # {}

\* C7 as stated: an absent or failed price is not fatal: the evaluator
\* never ends on a price lookup.
C7_MissingPriceNotFatal ==
    eval_panic \notin {"Failed to get supply price", "Failed to get borrowed price"}

\* C8 as stated: for the snapshot the evaluator holds and every pair of
\* prices, a supplied value of 0 USD yields no breach.
C8_NoBreachWithoutSupply ==
    evaluator = "get_price"
        => \A supply_price \in PriceQuotes, borrowed_price \in PriceQuotes,
              rounded_up \in BOOLEAN :
               supply_price * supply_position.supplied_amount = 0
                   => ~is_health_factor_in_liquidation_range(
                           supply_position, supply_price, borrowed_price,
                           rounded_up)

\* C9 as stated: sending the alert never fails the evaluator, and between
\* cycles the notifier has been called once per breached cycle.
C9_OneCallPerBreach ==
    /\ eval_panic # "TELEGRAM_BOT_TOKEN environment variable not set"
    /\ evaluator = "sleep" => notifier_calls = breached_cycles

\* C10 as stated: before any block, hence before any event, the stored
\* position is the configured initial amounts.
C10_StartsFromConfigured ==
    head = 0 => get_position_data(POSITION_DATA) = chains_get_position_data(env)

\* C11: under every interleaving of the listener's steps and the
\* evaluator's, the snapshot get_position_data returns to the evaluator is
\* the stored pair as it stands when the read ends, that is the position
\* after the deltas applied so far: no write falls between the copies of
\* its two fields, and a write changes one field by one whole delta.
C11_SnapshotConsistent ==
    [][get_position_data_clone_borrowed => supply_position' = POSITION_DATA']_vars

\* The evaluator holds a snapshot taken after a delta to each field.
C11_Witness ==
    /\ evaluator = "get_price"
    /\ supply_position.supplied_amount > 0
    /\ supply_position.borrowed_amount > 0

\* Whatever the listener and the supervisor are doing, the step the
\* evaluator is at can be taken.
EvaluatorCanStep ==
    /\ (evaluator = "sleep" /\ breached_cycles < MaxCycles)
           => ENABLED evaluator_read_position
    /\ evaluator = "get_price" => ENABLED evaluator_get_prices
    /\ evaluator = "send_telegram_alert" => ENABLED evaluator_send_alert

\* Whatever the evaluator is doing, the step the listener or the supervisor
\* is at can be taken.
ListenerCanStep ==
    /\ supervisor = "spawn" => ENABLED supervisor_spawn
    /\ (supervisor = "await" /\ ListenerEnded) => ENABLED supervisor_join
    /\ supervisor = "sleep" => ENABLED supervisor_sleep
    /\ listener = "connecting" => ENABLED ethereum_listening_subscribe
    /\ (listener = "stream_next" /\ stream # <<>>)
           => ENABLED ethereum_listening_next_block
    /\ listener = "get_logs" => ENABLED ethereum_listening_get_logs(EmptyOrSingle)
    /\ listener = "for_log" => ENABLED ethereum_listening_for_log(CleanLogs)
    /\ listener = "refresh" => ENABLED ethereum_listening_refresh

\* C12: each task survives the failure of the other.  Whatever has become
\* of the listener runs (returned, failed, panicked), the evaluator's next
\* step can be taken and its read returns the position last written; and
\* with the evaluator task dead, the steps of the listener and of its
\* supervisor can be taken.
C12_TasksIndependent ==
    /\ [](ListenerEnded => EvaluatorCanStep)
    /\ [](evaluator = "panicked" => ListenerCanStep)
    /\ [][evaluator_read_position
             => supply_position' = get_position_data(POSITION_DATA)]_vars

\* A listener run has panicked and the evaluator is in a cycle on the
\* position last written.
C12_Witness ==
    /\ listener = "panicked"
    /\ evaluator = "get_price"
    /\ supply_position = POSITION_DATA
    /\ POSITION_DATA # PositionData_new

\* C13 as stated: once ctrl-c has arrived, the pass over a batch that is in
\* progress reaches its end (or the end of the run), with no apply left
\* between its read and its write, and the evaluation cycle that is in
\* progress reaches its end.
C13_CooperativeCancellation ==
    /\ (~running /\ listener \in {"for_log", "refresh"})
           ~> listener \notin {"for_log", "refresh"}
    /\ (~running /\ evaluator \in {"get_price", "send_telegram_alert"})
           ~> evaluator \in {"sleep", "panicked"}

\* C14: a Withdraw (a Repay) of more than the supplied (the borrowed) amount
\* sets that amount to exactly 0, leaves the other amount as it was, and is
\* no error: the loop goes on to the next log of the batch, or to the next
\* block after the last one.
C14_ClampIsNoError ==
    [][(/\ ethereum_listening_refresh
        /\ \/ /\ refresh.kind = "Withdraw"
              /\ refresh.event.amount > POSITION_DATA.supplied_amount
           \/ /\ refresh.kind = "Repay"
              /\ refresh.event.amount > POSITION_DATA.borrowed_amount)
          => /\ POSITION_DATA' =
                    IF refresh.kind = "Withdraw"
                    THEN [POSITION_DATA EXCEPT !.supplied_amount = 0]
                    ELSE [POSITION_DATA EXCEPT !.borrowed_amount = 0]
             /\ listener' \in {"for_log", "stream_next"}]_vars

\* The first log the listener ever took is a Withdraw of the largest
\* amount, on a supplied amount of 0: it has been applied and the loop has
\* gone on to the next log.
C14_Witness ==
    /\ \A n \in 1..MaxBlocks : fetch_count[n] = IF n = 1 THEN 1 ELSE 0
    /\ listener = "for_log"
    /\ logs = <<Log(get_pool_v3_address, <<WITHDRAW_EVENT_TOPIC>>, TRUE,
                    get_user_address_to_track, MaxAmount)>>
    /\ POSITION_DATA = PositionData_new

\* C15: when the notifier fails in a breached cycle (the Telegram variables
\* being set), it has been called once in that cycle and is not called
\* again, the evaluator task does not end, and the loop is at its next
\* sleep.
C15_NotifierFailureNotRetried ==
    [][(/\ evaluator_send_alert
        /\ is_liquidation_range
        /\ env.TELEGRAM = "ok"
        /\ alert_result' = "Err")
          => /\ notifier_calls' = notifier_calls + 1
             /\ evaluator' = "sleep"
             /\ eval_panic' = "none"]_vars

\* The notifier failed in the one breached cycle so far, and the next
\* cycle is under way.
C15_Witness ==
    /\ env.TELEGRAM = "ok"
    /\ alert_result = "Err"
    /\ breached_cycles = 1
    /\ notifier_calls = 1
    /\ evaluator = "get_price"

\* The amount a delta is about, before it is applied.
Balance(position, kind) ==
    IF kind \in {"Supply", "Withdraw"}
    THEN position.supplied_amount
    ELSE position.borrowed_amount

\* C16: a Supply or Borrow whose amount added to the current balance exceeds
\* the 256-bit maximum never stores the sum modulo 2^256: after the step the
\* field is as it was or at the maximum, and the other field is as it was.
C16_NoSilentWrap ==
    [][(/\ ethereum_listening_refresh
        /\ refresh.kind \in {"Supply", "Borrow"}
        /\ Balance(POSITION_DATA, refresh.kind) + refresh.event.amount > U256_MAX)
          => /\ Balance(POSITION_DATA', refresh.kind)
                    \in {Balance(POSITION_DATA, refresh.kind), U256_MAX}
             /\ Balance(POSITION_DATA', refresh.kind)
                    # (Balance(POSITION_DATA, refresh.kind) + refresh.event.amount)
                          % (U256_MAX + 1)
             /\ \A kind \in {"Supply", "Borrow"} \ {refresh.kind} :
                    Balance(POSITION_DATA', kind) = Balance(POSITION_DATA, kind)]_vars

\* A run has ended on the panic of an overflowing addition, with the
\* supervisor waiting for it.
C16_Witness ==
    /\ listener = "panicked"
    /\ supervisor = "await"
    /\ \/ POSITION_DATA.supplied_amount > 0
       \/ POSITION_DATA.borrowed_amount > 0

Min(a, b) == IF a <= b THEN a ELSE b

\* borrowedValueUsd / suppliedValueUsd > liquidationThreshold over the
\* rationals, for a supplied value that is positive, with both sides
\* multiplied by the denominators.
RatioAboveThreshold(position, supply_price, borrowed_price) ==
    LET d == Min(get_supply_token_decimals, get_borrowed_token_decimals)
    IN  borrowed_price * position.borrowed_amount * liquidation_threshold_den
            * Pow10(get_supply_token_decimals - d)
        > liquidation_threshold_num * supply_price * position.supplied_amount
            * Pow10(get_borrowed_token_decimals - d)

\* C17 as stated: for the snapshot the evaluator holds and every pair of
\* prices that make the supplied value positive, the verdict is true exactly
\* when the ratio of the borrowed value to the supplied value is above the
\* threshold; a ratio equal to the threshold is no breach.
C17_BreachIffAboveThreshold ==
    evaluator = "get_price"
        => \A supply_price \in PriceQuotes, borrowed_price \in PriceQuotes,
              rounded_up \in BOOLEAN :
               supply_price * supply_position.supplied_amount > 0
                   => (is_health_factor_in_liquidation_range(
                           supply_position, supply_price, borrowed_price,
                           rounded_up)
                       <=> RatioAboveThreshold(
                               supply_position, supply_price, borrowed_price))

\* A log is a matching record: emitted by the tracked pool, its first topic
\* one of the four signatures, decoded, of the tracked user.
Matching(log) ==
    /\ log.address = get_pool_v3_address
    /\ log.topics # <<>>
    /\ log.topics[1] \in KnownTopics
    /\ log.decodes
    /\ log.user = get_user_address_to_track

\* The kind of event the first topic of a matching record names.
KindOf(log) == EventKinds[CHOOSE k \in 1..4 : EventTopics[k] = log.topics[1]]

RECURSIVE ClampedFold(_, _)
\* The clamped fold of the matching records of a batch, in the order of the
\* batch, from a position.
ClampedFold(position, batch) ==
    IF batch = <<>> THEN position
    ELSE ClampedFold(IF Matching(Head(batch))
                     THEN RefApply(position, KindOf(Head(batch)),
                                   Head(batch).amount)
                     ELSE position,
                     Tail(batch))

\* The log query has answered once since the process started.
FirstBatch ==
    \E n \in 1..MaxBlocks :
        /\ fetch_count[n] = 1
        /\ \A m \in (1..MaxBlocks) \ {n} : fetch_count[m] = 0

\* C18: the logs of a batch are applied in the order the log query returned
\* them, none reordered and none dropped as a duplicate.  Every apply is the
\* clamped delta of the matching record the loop took last, on the position
\* the records before it left (or the panic of an overflowing addition);
\* every matching record the loop takes is applied before the next log is
\* taken, be it equal to the one before it; and over the first batch since
\* the start, after each log the loop gets past and at the end of the pass,
\* the position is the clamped fold, from 0 and 0, of the matching records
\* taken so far in returned order.
C18_AppliedInReturnedOrder ==
    /\ [][ethereum_listening_refresh
            => /\ Matching(LastTaken)
               /\ refresh.kind = KindOf(LastTaken)
               /\ refresh.event.amount = LastTaken.amount
               /\ \/ listener' = "panicked"
                  \/ POSITION_DATA' =
                         RefApply(POSITION_DATA, KindOf(LastTaken),
                                  LastTaken.amount)]_vars
    /\ [][\/ listener # "for_log"
          \/ listener' = "refresh"
          \/ ~ \E log \in CleanLogs : for_log(log)]_vars
    /\ [][(/\ FirstBatch
           /\ listener \in {"for_log", "refresh"}
           /\ listener' \in {"for_log", "stream_next"})
            => POSITION_DATA' =
                   ClampedFold(PositionData_new,
                               IF listener' = "for_log" THEN logs' ELSE logs)]_vars

\* The first batch holds the same Supply twice: the first has been applied
\* and the loop has taken the second and is applying it.
C18_Witness ==
    /\ FirstBatch
    /\ listener = "refresh"
    /\ Len(logs) = 2
    /\ logs[1] = logs[2]
    /\ refresh.kind = "Supply"
    /\ POSITION_DATA.supplied_amount = logs[1].amount
    /\ refresh.current_position = POSITION_DATA

\* C19: the position is written by the apply step of the listener alone.
\* Every step that changes the supplied or the borrowed amount is that
\* step, and no step of the evaluator (the read of the position, the price
\* lookups and the verdict, the alert) nor of the supervisor (the start of
\* a run, the end of a run by return, error or panic, the delay) changes
\* either amount.
C19_OnlyApplyWrites ==
    /\ [][POSITION_DATA' = POSITION_DATA \/ ethereum_listening_refresh]_vars
    /\ [][POSITION_DATA' = POSITION_DATA
              \/ ~(EvaluatorNext \/ SupervisorNext)]_vars

\* With a position that is not the initial one, a listener run has ended
\* and the supervisor has started the next one, and the evaluator has read
\* the position, found a breach and sent its alert.
C19_Witness ==
    /\ POSITION_DATA # PositionData_new
    /\ notifier_calls = 1
    /\ listener = "connecting"
    /\ supervisor = "await"
    /\ alert_result = "Ok"
    /\ evaluator = "sleep"

\* The lock is held by the evaluator exactly while it copies the two
\* fields, and by the listener exactly while it assigns one field.
LockHeldForCopyOrAssignment ==
    /\ lock = "evaluator" <=> evaluator \in {"clone_supplied", "clone_borrowed"}
    /\ lock = "listener" <=> listener = "update"
    /\ lock \in {"free", "evaluator", "listener"}

\* C20: the lock of the position is held only for one copy of the snapshot
\* or one assignment of a field: never while a task waits on the block
\* stream, the log query, the price lookups, the notifier or a sleep, and
\* never by a task that has ended or panicked, so that no lock() finds the
\* mutex poisoned.  A lock that is held is released; every read the
\* evaluator is due for completes with the evaluator at the price lookups;
\* every log the listener takes is got past, and every apply it has started
\* ends, with the field assigned or with the panic of an overflowing sum.
C20_LockNeverStarves ==
    /\ []LockHeldForCopyOrAssignment
    /\ (lock # "free") ~> (lock = "free")
    /\ (evaluator = "sleep" /\ breached_cycles < MaxCycles)
           ~> (evaluator = "get_price")
    /\ \A k \in 0..MaxLogs :
           (listener = "for_log" /\ Len(logs) = k)
               ~> ~(listener = "for_log" /\ Len(logs) = k)
    /\ (listener = "refresh")
           ~> (listener \in {"for_log", "stream_next", "panicked"})

\* The listener has a new amount to assign and waits for the lock while
\* the evaluator, holding it, is half way through its copy.
C20_Witness ==
    /\ lock = "evaluator"
    /\ evaluator = "clone_borrowed"
    /\ listener = "refresh"
    /\ ~refresh_position(refresh.kind, refresh.current_position,
                         refresh.event).panic

\* C21 as stated: the query of a block is restricted to the tracked pool and
\* to the four signatures, so that every log the loop takes from a batch was
\* emitted by the tracked pool and has one of the four signatures as its
\* first topic.
C21_QueryRestrictedToPool ==
    \A i \in 1..Len(logs) :
        /\ logs[i].address = get_pool_v3_address
        /\ logs[i].topics # <<>>
        /\ logs[i].topics[1] \in KnownTopics

\* C22: there is one delay between the end of a run of ethereum_listening
\* and the start of the next.  The step that finds the run ended (returned,
\* failed or panicked) leads to the sleep and starts nothing; a run that has
\* ended is replaced by the spawn step alone; and the supervisor comes to
\* the spawn only by the end of the sleep.
C22_DelayBetweenRuns ==
    /\ [][supervisor_join
            => supervisor' = "sleep" /\ listener' = listener]_vars
    /\ [][(ListenerEnded /\ listener' # listener)
            => supervisor_spawn /\ listener' = "connecting"]_vars
    /\ [][(supervisor' = "spawn" /\ supervisor # "spawn")
            => supervisor_sleep]_vars

\* After deltas were applied a run has ended on a panic, the supervisor has
\* found it so and has slept, and is about to start the next run.
C22_Witness ==
    /\ supervisor = "spawn"
    /\ listener = "panicked"
    /\ POSITION_DATA # PositionData_new

\* C23: a log of the tracked pool that has no topic, or whose first topic is
\* none of the four signatures, is skipped: the position is unchanged, no
\* apply is started, the run does not end, and the loop goes on to the next
\* log of the batch (or to the next block after the last one).
\* (A step either goes on so, or is not the taking of such a log.)
C23_UnclassifiedLogSkipped ==
    [][\/ listener # "for_log"
       \/ LogSkipped
       \/ ~ \E log \in UnclassifiedLogs : for_log(log)]_vars

\* After a delta was applied, the loop has taken a log of the pool with an
\* unknown first topic as the first of a batch of two and has moved on to
\* the second.
C23_Witness ==
    /\ listener = "for_log"
    /\ Len(logs) = 1
    /\ logs_len = 2
    /\ logs[1].address = get_pool_v3_address
    /\ logs[1].topics = <<UNKNOWN_TOPIC>>
    /\ POSITION_DATA # PositionData_new

\* C24: a log causes at most one delta, of the kind its first topic names.
\* An apply is started only by the taking of one more log from the batch,
\* as the kind of that log's first topic; the apply changes only the field
\* of that kind, upwards for a Supply or a Borrow and downwards for a
\* Withdraw or a Repay; and when it has ended the loop is at the next log
\* or at the end of the pass, never at a second apply of the same log.
C24_OneDeltaOfTheTopicsKind ==
    /\ [][(listener' = "refresh")
            => /\ listener = "for_log"
               /\ logs' # <<>>
               /\ Len(logs') = Len(logs) + 1
               /\ logs'[Len(logs')].topics # <<>>
               /\ logs'[Len(logs')].topics[1] \in KnownTopics
               /\ refresh'.kind = KindOf(logs'[Len(logs')])]_vars
    /\ [][ethereum_listening_refresh
            => /\ listener' # "refresh"
               /\ refresh' = NoRefresh
               /\ \A kind \in {"Supply", "Borrow"} :
                      IF (kind = "Supply")
                             = (KindOf(LastTaken) \in {"Supply", "Withdraw"})
                      THEN IF KindOf(LastTaken) \in {"Supply", "Borrow"}
                           THEN Balance(POSITION_DATA', kind)
                                    >= Balance(POSITION_DATA, kind)
                           ELSE Balance(POSITION_DATA', kind)
                                    <= Balance(POSITION_DATA, kind)
                      ELSE Balance(POSITION_DATA', kind)
                               = Balance(POSITION_DATA, kind)]_vars

\* A Repay of 1 was the first log of a batch of two: it has been applied
\* once, to the borrowed amount alone, which was 2 and is 1, and the loop is
\* at the second log.
C24_Witness ==
    /\ listener = "for_log"
    /\ logs_len = 2
    /\ logs = <<Log(get_pool_v3_address, <<REPAY_EVENT_TOPIC>>, TRUE,
                    get_user_address_to_track, 1)>>
    /\ POSITION_DATA = [supplied_amount |-> 0, borrowed_amount |-> 1]

\* A run of ethereum_listening is alive: started and not ended.
RunAlive ==
    listener \in {"connecting", "stream_next", "get_logs", "for_log",
                  "refresh", "update"}

\* C25: the supervisor starts a run only when no run is alive, so the
\* position has one writer; between the snapshot an apply has read and the
\* assignment of its new amount, whatever steps the evaluator and the
\* supervisor take, the stored position stays that snapshot, and the
\* assignment leaves the reference delta applied to the position as it is
\* stored then: no applied delta is lost or overwritten.
C25_SingleWriter ==
    /\ [][supervisor_spawn => ~RunAlive]_vars
    /\ [](listener \in {"refresh", "update"}
              => refresh.current_position = POSITION_DATA)
    /\ [][update_amount_assign
            => POSITION_DATA' =
                   RefApply(POSITION_DATA, refresh.kind, refresh.event.amount)]_vars

\* The listener holds the lock to assign the new amount of a Withdraw on a
\* position that earlier deltas have changed, the evaluator having read the
\* same snapshot since.
C25_Witness ==
    /\ listener = "update"
    /\ lock = "listener"
    /\ refresh.kind = "Withdraw"
    /\ POSITION_DATA # PositionData_new
    /\ evaluator = "get_price"
    /\ supply_position = refresh.current_position

\* C26: the position a new run of ethereum_listening starts from is the
\* position the run before it ended with.  The step that ends a run (an
\* error returned, the end of the stream, a panic), every step taken while
\* the run has ended (the supervisor finding it so, its sleep, the spawn of
\* the next run) and every step of the new run up to its subscription
\* leave both amounts as they are; nothing sets them to 0 or to the
\* initial values.
C26_RestartKeepsPosition ==
    [][(\/ ListenerEnded'
        \/ ListenerEnded
        \/ listener = "connecting")
          => POSITION_DATA' = POSITION_DATA]_vars

\* A Supply and a Borrow were applied in passes that all ended with the run
\* (no pass over a batch has come to its end), and the run started since
\* has connected, subscribed and waits for a block with both amounts kept.
C26_Witness ==
    /\ listener = "stream_next"
    /\ supervisor = "await"
    /\ POSITION_DATA.supplied_amount > 0
    /\ POSITION_DATA.borrowed_amount > 0
    /\ handled = {}

====
